---- MODULE Spec2Model ----
(***************************************************************************)
(* SchemaLoader (src/src/serialization/schema-loader.ts): the registry of  *)
(* dynamically loaded struct schemas, the synthesis of field accessors and *)
(* the plain-object projection of a decoded struct.                        *)
(*                                                                         *)
(* Integers wider than 31 bits are kept as four 16-bit limbs (least        *)
(* significant first) with a sign flag, so that 32- and 64-bit values keep *)
(* their full width.  A JavaScript value is a record [t, v] where t is the *)
(* typeof-like tag and v a sequence of integers.                           *)
(***************************************************************************)
EXTENDS Integers, Sequences, FiniteSets, TLC

VARIABLES schemas, types, loadedFrom, inst, result, lastSet

vars == <<schemas, types, loadedFrom, inst, result, lastSet>>

(***************************************************************************)
(* Bounds of the model.                                                    *)
(***************************************************************************)
MaxLoads == 3

MaxStructLoads == 2

MaxNameLen == 5

MaxNameLoads == 1

MaxOffset == 2

(***************************************************************************)
(* Sequence helpers.                                                       *)
(***************************************************************************)
Last(s) == s[Len(s)]

Range(s) == {s[i] : i \in 1..Len(s)}

RECURSIVE SeqsUpTo(_, _)
SeqsUpTo(S, n) ==
  IF n = 0 THEN {<<>>}
  ELSE LET shorter == SeqsUpTo(S, n - 1)
       IN  shorter \cup {Append(s, c) : s \in {x \in shorter : Len(x) = n - 1}, c \in S}

(***************************************************************************)
(* String.prototype.split(":"): the segments between the separators; a     *)
(* string without separator yields one segment, the string itself.         *)
(***************************************************************************)
RECURSIVE split(_, _)
split(str, sep) ==
  IF \A i \in 1..Len(str) : str[i] # sep THEN <<str>>
  ELSE LET p == CHOOSE i \in 1..Len(str) :
                  /\ str[i] = sep
                  /\ \A j \in 1..(i - 1) : str[j] # sep
       IN  <<SubSeq(str, 1, p - 1)>> \o split(SubSeq(str, p + 1, Len(str)), sep)

\* the last segment replaced by the whole name (mutation of extractDisplayName)
extractDisplayName_firstSegment(fullName) ==
  LET parts == split(fullName, ":")
  IN  IF parts[1] # <<>> THEN parts[1] ELSE fullName

\* schema-loader.ts 142-145: parts[parts.length - 1] || fullName
extractDisplayName(fullName) ==
  LET parts == split(fullName, ":")
  IN  IF Last(parts) # <<>> THEN Last(parts) ELSE fullName

(***************************************************************************)
(* bigint.toString(radix): the digits, most significant first.             *)
(***************************************************************************)
RECURSIVE toStringRadix(_, _)
toStringRadix(n, radix) ==
  IF n < radix THEN <<n>>
  ELSE Append(toStringRadix(n \div radix, radix), n % radix)

(***************************************************************************)
(* Type classifier.                                                        *)
(***************************************************************************)
isPointerType(typeWhich) ==
  typeWhich \in {"TEXT", "DATA", "LIST", "STRUCT", "ANY_POINTER"}

isPrimitiveType(typeWhich) ==
  typeWhich \in {"BOOL", "INT8", "INT16", "INT32", "INT64", "UINT8",
                 "UINT16", "UINT32", "UINT64", "FLOAT32", "FLOAT64"}

typeToString(typeWhich) ==
  CASE typeWhich = "VOID" -> "void"
    [] typeWhich = "BOOL" -> "bool"
    [] typeWhich = "INT8" -> "int8"
    [] typeWhich = "INT16" -> "int16"
    [] typeWhich = "INT32" -> "int32"
    [] typeWhich = "INT64" -> "int64"
    [] typeWhich = "UINT8" -> "uint8"
    [] typeWhich = "UINT16" -> "uint16"
    [] typeWhich = "UINT32" -> "uint32"
    [] typeWhich = "UINT64" -> "uint64"
    [] typeWhich = "FLOAT32" -> "float32"
    [] typeWhich = "FLOAT64" -> "float64"
    [] typeWhich = "TEXT" -> "text"
    [] typeWhich = "DATA" -> "data"
    [] typeWhich = "LIST" -> "list"
    [] typeWhich = "STRUCT" -> "struct"
    [] typeWhich = "ENUM" -> "enum"
    [] typeWhich = "INTERFACE" -> "interface"
    [] typeWhich = "ANY_POINTER" -> "anyPointer"
    [] OTHER -> "unknown"

(***************************************************************************)
(* parseFields: one FieldInfo per slot field, in declaration order.        *)
(***************************************************************************)
FieldInfo(field) ==
  [name |-> field.name,
   offset |-> field.offset,
   type |-> typeToString(field.type),
   isPointer |-> isPointerType(field.type),
   isPrimitive |-> isPrimitiveType(field.type),
   isText |-> field.type = "TEXT",
   isData |-> field.type = "DATA",
   isList |-> field.type = "LIST",
   isStruct |-> field.type = "STRUCT"]

RECURSIVE parseFields(_)
parseFields(fieldsList) ==
  IF fieldsList = <<>> THEN <<>>
  ELSE IF ~fieldsList[1].isSlot THEN parseFields(Tail(fieldsList))
  ELSE <<FieldInfo(fieldsList[1])>> \o parseFields(Tail(fieldsList))

(***************************************************************************)
(* calculateByteOffset: slot offset times the width of the type.           *)
(***************************************************************************)
typeSizes(type) ==
  CASE type \in {"int8", "uint8"} -> 1
    [] type \in {"int16", "uint16"} -> 2
    [] type \in {"int32", "uint32"} -> 4
    [] type \in {"int64", "uint64"} -> 8
    [] type = "float32" -> 4
    [] type = "float64" -> 8
    [] OTHER -> 0

\* the slot offset taken as a byte offset (mutation of calculateByteOffset)
calculateByteOffset_unscaled(field) ==
  IF field.type = "bool" THEN field.offset \div 8 ELSE field.offset

calculateByteOffset(field) ==
  IF field.type = "bool" THEN field.offset \div 8
  ELSE LET typeSize == IF typeSizes(field.type) # 0 THEN typeSizes(field.type) ELSE 8
       IN  field.offset * typeSize

(***************************************************************************)
(* JavaScript values.  Integers are <<neg, l0, l1, l2, l3>>: a sign flag   *)
(* and the magnitude in 16-bit limbs, least significant first.             *)
(***************************************************************************)
JsValue(tag, v) == [t |-> tag, v |-> v]

Undefined == JsValue("undefined", <<>>)

Null == JsValue("null", <<>>)

Bool(b) == JsValue("boolean", <<IF b THEN 1 ELSE 0>>)

Str(chars) == JsValue("string", chars)

IsNeg(value) == value.v[1] = 1

Mag(value) == Tail(value.v)

RECURSIVE Inc(_)
Inc(limbs) ==
  IF limbs = <<>> THEN <<>>
  ELSE IF limbs[1] < 65535 THEN <<limbs[1] + 1>> \o Tail(limbs)
  ELSE <<0>> \o Inc(Tail(limbs))

\* two's complement negation modulo 2^64
Negate(limbs) == Inc([i \in 1..Len(limbs) |-> 65535 - limbs[i]])

\* the 64-bit two's complement pattern of an integer value
TwosComplement(value) == IF IsNeg(value) THEN Negate(Mag(value)) ELSE Mag(value)

\* little-endian bytes of a limb sequence
RECURSIVE LimbsToBytes(_)
LimbsToBytes(limbs) ==
  IF limbs = <<>> THEN <<>>
  ELSE <<limbs[1] % 256, limbs[1] \div 256>> \o LimbsToBytes(Tail(limbs))

RECURSIVE BytesToLimbs(_)
BytesToLimbs(bytes) ==
  IF bytes = <<>> THEN <<>>
  ELSE <<bytes[1] + 256 * bytes[2]>> \o BytesToLimbs(Tail(Tail(bytes)))

Pad(bytes, fill) == bytes \o [i \in 1..(8 - Len(bytes)) |-> fill]

(***************************************************************************)
(* Wire layout primitives (pointers/utils): bounds-checked reads and       *)
(* writes of bits, fixed-width integers and pointer slots of one struct.   *)
(* A struct s is [ctor, data, ptrs]: data a sequence of bytes, ptrs a      *)
(* sequence of pointer slots [k, v].  Every primitive yields               *)
(* [ok, value, s]: ok is FALSE when the primitive throws.                  *)
(***************************************************************************)
Returns(value, s) == [ok |-> TRUE, value |-> value, s |-> s]

Throws(s) == [ok |-> FALSE, value |-> Undefined, s |-> s]

checkDataBounds(byteOffset, byteLength, s) ==
  byteOffset >= 0 /\ byteOffset + byteLength <= Len(s.data)

checkPointerBounds(index, s) == index >= 0 /\ index < Len(s.ptrs)

BitOf(byte, k) == (byte \div (2 ^ k)) % 2

getBit(bitOffset, s) ==
  LET byteOffset == bitOffset \div 8
  IN  IF ~checkDataBounds(byteOffset, 1, s) THEN Throws(s)
      ELSE Returns(Bool(BitOf(s.data[byteOffset + 1], bitOffset % 8) = 1), s)

setBit(bitOffset, value, s) ==
  LET byteOffset == bitOffset \div 8
      bitMask == 2 ^ (bitOffset % 8)
  IN  IF ~checkDataBounds(byteOffset, 1, s) THEN Throws(s)
      ELSE LET b == s.data[byteOffset + 1]
               cleared == b - bitMask * BitOf(b, bitOffset % 8)
               nb == IF value.v[1] = 1 THEN cleared + bitMask ELSE cleared
           IN  Returns(Undefined, [s EXCEPT !.data[byteOffset + 1] = nb])

\* getInt8 .. getUint64: width bytes at byteOffset, little-endian
getInt(byteOffset, width, signed, s) ==
  IF ~checkDataBounds(byteOffset, width, s) THEN Throws(s)
  ELSE LET raw == SubSeq(s.data, byteOffset + 1, byteOffset + width)
           tag == IF width = 8 THEN "bigint" ELSE "number"
       IN  IF signed /\ raw[width] >= 128
           THEN Returns(JsValue(tag, <<1>> \o Negate(BytesToLimbs(Pad(raw, 255)))), s)
           ELSE Returns(JsValue(tag, <<0>> \o BytesToLimbs(Pad(raw, 0))), s)

\* setInt8 .. setUint64: the low width bytes of the two's complement pattern
setInt(byteOffset, width, value, s) ==
  IF ~checkDataBounds(byteOffset, width, s) THEN Throws(s)
  ELSE LET bytes == LimbsToBytes(TwosComplement(value))
       IN  Returns(Undefined,
                   [s EXCEPT !.data = [i \in 1..Len(s.data) |->
                      IF i > byteOffset /\ i <= byteOffset + width
                      THEN bytes[i - byteOffset] ELSE s.data[i]]])

\* getFloat32, getFloat64: the value is kept as its IEEE bytes
getFloat(byteOffset, width, s) ==
  IF ~checkDataBounds(byteOffset, width, s) THEN Throws(s)
  ELSE Returns(JsValue("number", <<2>> \o SubSeq(s.data, byteOffset + 1, byteOffset + width)), s)

setFloat(byteOffset, width, value, s) ==
  IF ~checkDataBounds(byteOffset, width, s) THEN Throws(s)
  ELSE Returns(Undefined,
               [s EXCEPT !.data = [i \in 1..Len(s.data) |->
                  IF i > byteOffset /\ i <= byteOffset + width
                  THEN value.v[1 + i - byteOffset] ELSE s.data[i]]])

NullPointer == [k |-> "null", v |-> <<>>]

getText(index, s) ==
  IF ~checkPointerBounds(index, s) THEN Throws(s)
  ELSE LET p == s.ptrs[index + 1]
       IN  IF p.k = "null" THEN Returns(Str(<<>>), s)
           ELSE IF p.k = "text" THEN Returns(Str(p.v), s)
           ELSE Throws(s)

setText(index, value, s) ==
  IF ~checkPointerBounds(index, s) THEN Throws(s)
  ELSE Returns(Undefined, [s EXCEPT !.ptrs[index + 1] = [k |-> "text", v |-> value.v]])

getData(index, s) ==
  IF ~checkPointerBounds(index, s) THEN Throws(s)
  ELSE Returns(JsValue("object", <<index>>), s)

getPointer(index, s) ==
  IF ~checkPointerBounds(index, s) THEN Throws(s)
  ELSE Returns(JsValue("object", <<index>>), s)

(***************************************************************************)
(* Accessor synthesis.  A synthesized function is [fn, arg]: the utils     *)
(* primitive it calls and the offset it closed over.                       *)
(***************************************************************************)
Fn(fn, arg) == [fn |-> fn, arg |-> arg]

NoFn == Fn("none", 0)

PrimitiveTypeNames ==
  {"bool", "int8", "int16", "int32", "int64", "uint8", "uint16", "uint32",
   "uint64", "float32", "float64"}

\* the utils function each case of the switch on field.type calls
utilsName(prefix, type) ==
  CASE type = "int8" -> prefix \o "Int8"
    [] type = "int16" -> prefix \o "Int16"
    [] type = "int32" -> prefix \o "Int32"
    [] type = "int64" -> prefix \o "Int64"
    [] type = "uint8" -> prefix \o "Uint8"
    [] type = "uint16" -> prefix \o "Uint16"
    [] type = "uint32" -> prefix \o "Uint32"
    [] type = "uint64" -> prefix \o "Uint64"
    [] type = "float32" -> prefix \o "Float32"
    [] type = "float64" -> prefix \o "Float64"

createPrimitiveGetter(field) ==
  LET byteOffset == calculateByteOffset(field)
  IN  IF field.type = "bool" THEN Fn("getBit", field.offset)
      ELSE IF field.type \in PrimitiveTypeNames THEN Fn(utilsName("get", field.type), byteOffset)
      ELSE Fn("undefined", 0)

\* the bool setter addressing the byte offset, like the others (mutation)
createPrimitiveSetter_boolByByte(field) ==
  LET byteOffset == calculateByteOffset(field)
  IN  IF field.type = "bool" THEN Fn("setBit", byteOffset)
      ELSE IF field.type \in PrimitiveTypeNames THEN Fn(utilsName("set", field.type), byteOffset)
      ELSE Fn("noop", 0)

createPrimitiveSetter(field) ==
  LET byteOffset == calculateByteOffset(field)
  IN  IF field.type = "bool" THEN Fn("setBit", field.offset)
      ELSE IF field.type \in PrimitiveTypeNames THEN Fn(utilsName("set", field.type), byteOffset)
      ELSE Fn("noop", 0)

\* the property descriptor built for one field; set is NoFn when the
\* descriptor carries no setter
descriptorOf(field) ==
  IF field.isPrimitive
  THEN [get |-> createPrimitiveGetter(field), set |-> createPrimitiveSetter(field)]
  ELSE IF field.isText
  THEN [get |-> Fn("getText", field.offset), set |-> Fn("setText", field.offset)]
  ELSE IF field.isData
  THEN [get |-> Fn("getData", field.offset), set |-> NoFn]
  ELSE [get |-> Fn("getPointer", field.offset), set |-> NoFn]

HasOwn(prototype, name) == \E i \in 1..Len(prototype) : prototype[i].name = name

IndexOf(prototype, name) == CHOOSE i \in 1..Len(prototype) : prototype[i].name = name

\* Object.defineProperty on an accessor table: a new name is appended; an
\* existing configurable accessor keeps its position and every attribute the
\* descriptor leaves out
defineProperty(prototype, name, descriptor) ==
  IF HasOwn(prototype, name)
  THEN LET i == IndexOf(prototype, name)
       IN  [prototype EXCEPT ![i] =
              [name |-> name,
               get |-> descriptor.get,
               set |-> IF descriptor.set = NoFn THEN prototype[i].set ELSE descriptor.set]]
  ELSE Append(prototype, [name |-> name, get |-> descriptor.get, set |-> descriptor.set])

addFieldAccessors(prototype, field) ==
  defineProperty(prototype, field.name, descriptorOf(field))

RECURSIVE addAll(_, _)
addAll(prototype, fields) ==
  IF fields = <<>> THEN prototype
  ELSE addAll(addFieldAccessors(prototype, fields[1]), Tail(fields))

\* a class whose prototype starts from the previously built class's accessor
\* table instead of an empty one (mutation of createDynamicStruct)
createDynamicStruct_inherit(id, displayName, size, fields) ==
  [capnp |-> [displayName |-> displayName, id |-> id, size |-> size],
   prototype |-> addAll(IF types = <<>> THEN <<>> ELSE Last(types).prototype, fields)]

\* the class built by one call: its static _capnp and its own prototype
createDynamicStruct(id, displayName, size, fields) ==
  [capnp |-> [displayName |-> displayName, id |-> id, size |-> size],
   prototype |-> addAll(<<>>, fields)]

ObjectSize(dataByteLength, pointerLength) ==
  [dataByteLength |-> dataByteLength, pointerLength |-> pointerLength]

(***************************************************************************)
(* Calling a synthesized function on a struct.                             *)
(***************************************************************************)
invokeGetter(g, s) ==
  CASE g.fn = "getBit" -> getBit(g.arg, s)
    [] g.fn = "getInt8" -> getInt(g.arg, 1, TRUE, s)
    [] g.fn = "getInt16" -> getInt(g.arg, 2, TRUE, s)
    [] g.fn = "getInt32" -> getInt(g.arg, 4, TRUE, s)
    [] g.fn = "getInt64" -> getInt(g.arg, 8, TRUE, s)
    [] g.fn = "getUint8" -> getInt(g.arg, 1, FALSE, s)
    [] g.fn = "getUint16" -> getInt(g.arg, 2, FALSE, s)
    [] g.fn = "getUint32" -> getInt(g.arg, 4, FALSE, s)
    [] g.fn = "getUint64" -> getInt(g.arg, 8, FALSE, s)
    [] g.fn = "getFloat32" -> getFloat(g.arg, 4, s)
    [] g.fn = "getFloat64" -> getFloat(g.arg, 8, s)
    [] g.fn = "getText" -> getText(g.arg, s)
    [] g.fn = "getData" -> getData(g.arg, s)
    [] g.fn = "getPointer" -> getPointer(g.arg, s)
    [] OTHER -> Returns(Undefined, s)

invokeSetter(f, value, s) ==
  CASE f.fn = "setBit" -> setBit(f.arg, value, s)
    [] f.fn \in {"setInt8", "setUint8"} -> setInt(f.arg, 1, value, s)
    [] f.fn \in {"setInt16", "setUint16"} -> setInt(f.arg, 2, value, s)
    [] f.fn \in {"setInt32", "setUint32"} -> setInt(f.arg, 4, value, s)
    [] f.fn \in {"setInt64", "setUint64"} -> setInt(f.arg, 8, value, s)
    [] f.fn = "setFloat32" -> setFloat(f.arg, 4, value, s)
    [] f.fn = "setFloat64" -> setFloat(f.arg, 8, value, s)
    [] f.fn = "setText" -> setText(f.arg, value, s)
    [] f.fn = "none" -> Throws(s)
    [] OTHER -> Returns(Undefined, s)

(***************************************************************************)
(* The registry: a Map keeps its entries in insertion order, and set() on  *)
(* an existing key replaces the value in place.                            *)
(***************************************************************************)
MapHas(m, key) == \E i \in 1..Len(m) : m[i].key = key

MapGet(m, key) == m[CHOOSE i \in 1..Len(m) : m[i].key = key].value

\* set() that always appends an entry (mutation of MapSet)
MapSet_append(m, key, value) == Append(m, [key |-> key, value |-> value])

\* set() that deletes the key and re-inserts it at the end (mutation of MapSet)
MapSet_moveToEnd(m, key, value) ==
  Append(SelectSeq(m, LAMBDA e : e.key # key), [key |-> key, value |-> value])

MapSet(m, key, value) ==
  IF MapHas(m, key)
  THEN [i \in 1..Len(m) |-> IF m[i].key = key THEN [key |-> key, value |-> value] ELSE m[i]]
  ELSE Append(m, [key |-> key, value |-> value])

(***************************************************************************)
(* State.                                                                  *)
(*   schemas     the loader's Map from id.toString() to LoadedSchema       *)
(*   types       the DynamicStruct classes created so far; a structCtor is *)
(*               an index into this sequence                               *)
(*   loadedFrom  for each class, the node it was built from and the        *)
(*               LoadedSchema returned for it (history)                    *)
(*   inst        the struct instance the caller holds                      *)
(*   result      the outcome of the last call                              *)
(*   lastSet     the last write through an accessor of inst (history)      *)
(***************************************************************************)
NoStruct == [ctor |-> 0, data |-> <<>>, ptrs |-> <<>>]

NoSet == [name |-> "", value |-> Undefined, ok |-> FALSE]

Outcome(op, arg, ok, ret) == [op |-> op, arg |-> arg, ok |-> ok, ret |-> ret]

Init ==
  /\ schemas = <<>>
  /\ types = <<>>
  /\ loadedFrom = <<>>
  /\ inst = NoStruct
  /\ result = Outcome("new", <<>>, TRUE, <<>>)
  /\ lastSet = NoSet

\* the entry stored before the struct check (mutation of loadDynamic)
loadDynamic_checkLate(node) ==
  LET id == node.id
      displayName == extractDisplayName(node.displayName)
      size == ObjectSize(node.dataWordCount * 8, node.pointerCount)
      structCtor == createDynamicStruct(toStringRadix(id, 16), displayName, size,
                                        parseFields(node.fields))
      schema == [id |-> id, displayName |-> displayName, size |-> size,
                 structCtor |-> Len(types) + 1]
  IN  /\ types' = Append(types, structCtor)
      /\ loadedFrom' = Append(loadedFrom, [node |-> node, schema |-> schema])
      /\ schemas' = MapSet(schemas, toStringRadix(id, 10), schema)
      /\ result' = IF node.isStruct
                   THEN Outcome("loadDynamic", <<node>>, TRUE, <<schema>>)
                   ELSE Outcome("loadDynamic", <<node>>, FALSE, <<>>)
      /\ UNCHANGED <<inst, lastSet>>

\* schema-loader.ts 67-106
loadDynamic(node) ==
  LET id == node.id
      displayName == extractDisplayName(node.displayName)
  IN  IF ~node.isStruct
      THEN /\ result' = Outcome("loadDynamic", <<node>>, FALSE, <<>>)
           /\ UNCHANGED <<schemas, types, loadedFrom, inst, lastSet>>
      ELSE /\ LET size == ObjectSize(node.dataWordCount * 8, node.pointerCount)
                  fields == parseFields(node.fields)
                  structCtor == createDynamicStruct(toStringRadix(id, 16), displayName,
                                                    size, fields)
                  schema == [id |-> id, displayName |-> displayName, size |-> size,
                             structCtor |-> Len(types) + 1]
              IN  /\ types' = Append(types, structCtor)
                  /\ loadedFrom' = Append(loadedFrom, [node |-> node, schema |-> schema])
                  /\ schemas' = MapSet(schemas, toStringRadix(id, 10), schema)
                  /\ result' = Outcome("loadDynamic", <<node>>, TRUE, <<schema>>)
           /\ UNCHANGED <<inst, lastSet>>

\* a missing id answered with the first stored schema (mutation of get)
get_fallback(id) ==
  /\ result' = IF MapHas(schemas, toStringRadix(id, 10))
               THEN Outcome("get", <<id>>, TRUE, <<MapGet(schemas, toStringRadix(id, 10))>>)
               ELSE IF schemas # <<>> THEN Outcome("get", <<id>>, TRUE, <<schemas[1].value>>)
               ELSE Outcome("get", <<id>>, FALSE, <<>>)
  /\ UNCHANGED <<schemas, types, loadedFrom, inst, lastSet>>

\* schema-loader.ts 115-121
get(id) ==
  /\ result' = IF ~MapHas(schemas, toStringRadix(id, 10))
               THEN Outcome("get", <<id>>, FALSE, <<>>)
               ELSE Outcome("get", <<id>>, TRUE, <<MapGet(schemas, toStringRadix(id, 10))>>)
  /\ UNCHANGED <<schemas, types, loadedFrom, inst, lastSet>>

\* the scan of getByName over schemas.values(), from entry i on
RECURSIVE scanByName(_, _, _)
scanByName(m, i, name) ==
  IF i > Len(m) THEN <<>>
  ELSE IF m[i].value.displayName = name THEN <<m[i].value>>
  ELSE scanByName(m, i + 1, name)

\* schema-loader.ts 129-136
getByName(name) ==
  /\ result' = Outcome("getByName", <<name>>, TRUE, scanByName(schemas, 1, name))
  /\ UNCHANGED <<schemas, types, loadedFrom, inst, lastSet>>

(***************************************************************************)
(* Struct instances.  message.initRoot / getRoot(schema.structCtor) binds  *)
(* an instance of the class to a region at least as large as the class's   *)
(* _capnp.size; the region's content is whatever the message holds.        *)
(***************************************************************************)
DataImages(n) == {[i \in 1..n |-> 0], [i \in 1..n |-> 255]}

PointerImages(n) ==
  {[i \in 1..n |-> NullPointer],
   [i \in 1..n |-> [k |-> "struct", v |-> <<>>]]}

newStruct(ctor) ==
  /\ ctor \in 1..Len(types)
  /\ \E data \in DataImages(types[ctor].capnp.size.dataByteLength),
        ptrs \in PointerImages(types[ctor].capnp.size.pointerLength) :
       inst' = [ctor |-> ctor, data |-> data, ptrs |-> ptrs]
  /\ result' = Outcome("newStruct", <<ctor>>, TRUE, <<>>)
  /\ lastSet' = NoSet
  /\ UNCHANGED <<schemas, types, loadedFrom>>

Prototype(s) == types[s.ctor].prototype

\* struct[name]: the accessor's getter, or undefined without such a property
readField(name) ==
  /\ inst.ctor # 0
  /\ LET r == IF HasOwn(Prototype(inst), name)
              THEN invokeGetter(Prototype(inst)[IndexOf(Prototype(inst), name)].get, inst)
              ELSE Returns(Undefined, inst)
     IN  result' = Outcome("getField", <<name>>, r.ok, IF r.ok THEN <<r.value>> ELSE <<>>)
  /\ UNCHANGED <<schemas, types, loadedFrom, inst, lastSet>>

\* the values a caller passes to a setter: booleans to a bool field, numbers
\* to the fields of up to 32 bits, bigints to the 64-bit fields, strings to text
Accepts(fn, value) ==
  CASE fn = "setBit" -> value.t = "boolean"
    [] fn \in {"setInt8", "setUint8", "setInt16", "setUint16", "setInt32", "setUint32"} ->
         value.t = "number" /\ Len(value.v) = 5
    [] fn \in {"setInt64", "setUint64"} -> value.t = "bigint"
    [] fn \in {"setFloat32", "setFloat64"} -> value.t = "number" /\ value.v[1] = 2
    [] fn = "setText" -> value.t = "string"
    [] OTHER -> value.t = "null"

\* struct[name] = value through the accessor's setter (a TypeError without one)
writeField(name, value) ==
  /\ inst.ctor # 0
  /\ HasOwn(Prototype(inst), name)
  /\ Accepts(Prototype(inst)[IndexOf(Prototype(inst), name)].set.fn, value)
  /\ LET r == invokeSetter(Prototype(inst)[IndexOf(Prototype(inst), name)].set, value, inst)
     IN  /\ inst' = r.s
         /\ result' = Outcome("setField", <<name>>, r.ok, <<value>>)
         /\ lastSet' = [name |-> name, value |-> value, ok |-> r.ok]
  /\ UNCHANGED <<schemas, types, loadedFrom>>

(***************************************************************************)
(* toObject.  A plain object is a sequence of [key, value] entries in      *)
(* insertion order.                                                        *)
(***************************************************************************)
ObjectSet(obj, key, value) ==
  IF \E i \in 1..Len(obj) : obj[i].key = key
  THEN [i \in 1..Len(obj) |-> IF obj[i].key = key THEN [key |-> key, value |-> value] ELSE obj[i]]
  ELSE Append(obj, [key |-> key, value |-> value])

\* Object.keys(Object.getPrototypeOf(struct))
ObjectKeys(prototype) == [i \in 1..Len(prototype) |-> prototype[i].name]

RECURSIVE projectKeys(_, _, _, _)
projectKeys(obj, keys, prototype, struct) ==
  IF keys = <<>> THEN obj
  ELSE LET key == keys[1]
           r == invokeGetter(prototype[IndexOf(prototype, key)].get, struct)
           next == IF ~r.ok THEN ObjectSet(obj, key, Null)
                   ELSE IF r.value.t \in {"function", "undefined"} THEN obj
                   ELSE ObjectSet(obj, key, r.value)
       IN  projectKeys(next, Tail(keys), prototype, struct)

RECURSIVE projectKeys_abort(_, _, _, _)
\* the loop left at the first read that throws
projectKeys_abort(obj, keys, prototype, struct) ==
  IF keys = <<>> THEN obj
  ELSE LET key == keys[1]
           r == invokeGetter(prototype[IndexOf(prototype, key)].get, struct)
       IN  IF ~r.ok THEN ObjectSet(obj, key, Null)
           ELSE IF r.value.t \in {"function", "undefined"}
           THEN projectKeys_abort(obj, Tail(keys), prototype, struct)
           ELSE projectKeys_abort(ObjectSet(obj, key, r.value), Tail(keys), prototype, struct)

\* the keys taken from the schema argument's class (mutation of toObject)
toObject_ofSchema(struct, schema) ==
  projectKeys(<<>>,
              ObjectKeys(SelectSeq(types[schema.structCtor].prototype,
                                   LAMBDA a : HasOwn(Prototype(struct), a.name))),
              Prototype(struct), struct)

\* the try/catch around the whole loop (mutation of toObject)
toObject_abort(struct, schema) ==
  projectKeys_abort(<<>>, ObjectKeys(Prototype(struct)), Prototype(struct), struct)

\* schema-loader.ts 468-489
toObject(struct, schema) ==
  projectKeys(<<>>, ObjectKeys(Prototype(struct)), Prototype(struct), struct)

callToObject(t) ==
  /\ inst.ctor # 0
  /\ t \in 1..Len(loadedFrom)
  /\ result' = Outcome("toObject", <<t>>, TRUE, toObject(inst, loadedFrom[t].schema))
  /\ UNCHANGED <<schemas, types, loadedFrom, inst, lastSet>>

(***************************************************************************)
(* Inputs: schema nodes, names, ids and values.                            *)
(***************************************************************************)
Slot(name, offset, type) == [name |-> name, isSlot |-> TRUE, offset |-> offset, type |-> type]

Group(name) == [name |-> name, isSlot |-> FALSE, offset |-> 0, type |-> "VOID"]

Node(id, displayName, isStruct, dataWordCount, pointerCount, fields) ==
  [id |-> id, displayName |-> displayName, isStruct |-> isStruct,
   dataWordCount |-> dataWordCount, pointerCount |-> pointerCount, fields |-> fields]

Number(neg, l0, l1) == JsValue("number", <<neg, l0, l1, 0, 0>>)

BigInt(neg, l0, l1, l2, l3) == JsValue("bigint", <<neg, l0, l1, l2, l3>>)

\* {id: int32, name: text, active: bool}
PersonFields == <<Slot("id", 0, "INT32"), Slot("name", 0, "TEXT"), Slot("active", 32, "BOOL")>>

\* a group between the slots, and a text slot beyond the pointer section
GroupFields ==
  <<Slot("id", 1, "INT32"), Group("grp"), Slot("name", 1, "TEXT"), Slot("active", 7, "BOOL")>>

\* a field name declared twice, an enum, a list, and a field beyond the data section
MixedFields ==
  <<Slot("x", 0, "UINT8"), Slot("kind", 0, "ENUM"), Slot("big", 1, "UINT64"),
    Slot("x", 0, "DATA"), Slot("items", 0, "LIST")>>

Ids == {7, 26}

QueryIds == Ids \cup {5}

FooName == <<"p", ":", "F">>

BarName == <<"B">>

RegistryNodes ==
  {Node(id, n, TRUE, 1, 1, f) :
     id \in Ids, n \in {FooName, BarName}, f \in {PersonFields, GroupFields, MixedFields}}
  \cup {Node(id, FooName, FALSE, 0, 0, <<>>) : id \in Ids}

QueryNames == {<<"F">>, <<"B">>, FooName, <<>>}

Alphabet == {":", "a"}

NameNodes ==
  {Node(7, n, isStruct, 1, 1, PersonFields) :
     n \in SeqsUpTo(Alphabet, MaxNameLen), isStruct \in BOOLEAN}

ObjectNodes ==
  {Node(7, FooName, TRUE, 1, 1, PersonFields),
   Node(7, BarName, TRUE, 1, 1, GroupFields),
   Node(26, FooName, TRUE, 1, 1, MixedFields),
   Node(26, BarName, FALSE, 0, 0, <<>>)}

ObjectValues == {Bool(TRUE), Number(0, 7, 0), Str(<<120>>), Null}

IntTypes == {"INT8", "INT16", "INT32", "INT64", "UINT8", "UINT16", "UINT32", "UINT64"}

BitOffsets == {3, 8, 71}

\* one integer field v of each type at each wire offset, next to a bool field
AccessNodes ==
  {Node(7, BarName, TRUE, 2, 0, <<Slot("v", k, T), Slot("flag", b, "BOOL")>>) :
     T \in IntTypes, k \in 0..MaxOffset, b \in BitOffsets}

AccessValues ==
  {Bool(TRUE), Bool(FALSE),
   Number(0, 7, 0), Number(1, 1, 0), Number(1, 128, 0), Number(0, 255, 0),
   Number(1, 32768, 0), Number(0, 65535, 0),
   Number(1, 0, 32768), Number(0, 65535, 32767), Number(0, 65535, 65535),
   BigInt(0, 7, 0, 0, 0), BigInt(1, 1, 0, 0, 0), BigInt(0, 1, 0, 32, 0),
   BigInt(1, 0, 0, 0, 32768), BigInt(0, 65535, 65535, 65535, 32767),
   BigInt(0, 65535, 65535, 65535, 65535)}

FieldNames == {"id", "name", "active", "grp", "x", "kind", "big", "items", "v", "flag"}

(***************************************************************************)
(* Specifications.                                                         *)
(***************************************************************************)
Load(nodes) == \E node \in nodes : loadDynamic(node)

Get == \E id \in QueryIds : get(id)

GetByName == \E name \in QueryNames : getByName(name)

NewStruct == \E ctor \in 1..Len(types) : newStruct(ctor)

ReadField == \E name \in FieldNames : readField(name)

WriteField(values) == \E name \in FieldNames, value \in values : writeField(name, value)

ToObject == \E t \in 1..Len(loadedFrom) : callToObject(t)

\* every operation of the loader and of the structs it builds
Next ==
  \/ (Len(types) < MaxStructLoads /\ Load(ObjectNodes))
  \/ Get
  \/ GetByName
  \/ NewStruct
  \/ ReadField
  \/ WriteField(ObjectValues)
  \/ ToObject

Spec == Init /\ [][Next]_vars

\* the registry under loads of many nodes
NextRegistry ==
  \/ (Len(types) < MaxLoads /\ Load(RegistryNodes))
  \/ Get
  \/ GetByName

SpecRegistry == Init /\ [][NextRegistry]_vars

\* loads of nodes with every display name over the alphabet
NextNames ==
  \/ (Len(types) < MaxNameLoads /\ Load(NameNodes))
  \/ Get

SpecNames == Init /\ [][NextNames]_vars

\* the accessors of one loaded struct, over every integer type and offset
NextAccess ==
  \/ (types = <<>> /\ Load(AccessNodes))
  \/ NewStruct
  \/ ReadField
  \/ WriteField(AccessValues)

SpecAccess == Init /\ [][NextAccess]_vars

(***************************************************************************)
(* Properties of the registry.                                             *)
(***************************************************************************)
\* the loads, in order, that stored a schema for id
LoadsOf(id) == {t \in 1..Len(loadedFrom) : loadedFrom[t].node.id = id}

Max(S) == CHOOSE x \in S : \A y \in S : y <= x

Min(S) == CHOOSE x \in S : \A y \in S : x <= y

LatestLoad(id) == loadedFrom[Max(LoadsOf(id))]

\* the names of the slot fields of a node, as a set
SlotNames(node) == {node.fields[i].name : i \in {j \in 1..Len(node.fields) : node.fields[j].isSlot}}

AccessorNames(type) == {type.prototype[i].name : i \in 1..Len(type.prototype)}

\* C1: after two loads of struct nodes with the same id, get(id) returns the
\* schema produced by the latest load (its display name, its size, its class
\* with the accessors of the latest node), and the registry holds at most one
\* entry per id.
C1_LastLoadWins ==
  /\ \A i, j \in 1..Len(schemas) : schemas[i].value.id = schemas[j].value.id => i = j
  /\ (result.op = "get" /\ result.ok) =>
       LET latest == LatestLoad(result.arg[1])
           got == result.ret[1]
       IN  /\ got = latest.schema
           /\ got.size.dataByteLength = 8 * latest.node.dataWordCount
           /\ got.size.pointerLength = latest.node.pointerCount
           /\ got.structCtor = Max(LoadsOf(result.arg[1]))
           /\ AccessorNames(types[got.structCtor]) = SlotNames(latest.node)

\* a get that answers after the same id was loaded twice with different nodes
C1_Witness ==
  /\ result.op = "get" /\ result.ok
  /\ \E t, u \in LoadsOf(result.arg[1]) :
       /\ t < u
       /\ loadedFrom[t].node.displayName # loadedFrom[u].node.displayName
       /\ loadedFrom[t].node.fields # loadedFrom[u].node.fields
       /\ result.ret[1] = loadedFrom[u].schema

\* C2: get(id) fails, returning nothing, exactly when no loadDynamic call has
\* stored a schema for id; it succeeds only for ids loaded earlier.
C2_GetNotFound ==
  result.op = "get" =>
    /\ result.ok <=> LoadsOf(result.arg[1]) # {}
    /\ ~result.ok => result.ret = <<>>
    /\ result.ok => result.ret[1].id = result.arg[1]

\* a failed get on a registry that holds schemas of other ids
C2_Witness ==
  /\ result.op = "get" /\ ~result.ok
  /\ Len(schemas) >= 2

\* C3: loadDynamic of a node that is not a struct fails and leaves the
\* registry, and every class built so far, exactly as before the call.
C3_NotAStructKeepsRegistry ==
  [][(result'.op = "loadDynamic" /\ ~result'.arg[1].isStruct) =>
       /\ ~result'.ok
       /\ result'.ret = <<>>
       /\ schemas' = schemas
       /\ types' = types]_vars

\* a failed load of a node whose id is already registered
C3_Witness ==
  /\ result.op = "loadDynamic" /\ ~result.ok
  /\ ~result.arg[1].isStruct
  /\ \E i \in 1..Len(schemas) : schemas[i].value.id = result.arg[1].id

\* the ids stored, in the order of their first load
FirstLoad(id) == Min(LoadsOf(id))

IdsNamed(name) ==
  {id \in Ids : LoadsOf(id) # {} /\ LatestLoad(id).schema.displayName = name}

\* C4: getByName(name) never fails; it returns nothing when no stored schema
\* has that display name, and otherwise the stored schema with that display
\* name whose id was registered first.
C4_GetByNameFirstMatch ==
  result.op = "getByName" =>
    LET name == result.arg[1]
    IN  /\ result.ok
        /\ (result.ret = <<>>) <=> (IdsNamed(name) = {})
        /\ result.ret # <<>> =>
             LET first == CHOOSE id \in IdsNamed(name) :
                            \A other \in IdsNamed(name) : FirstLoad(id) <= FirstLoad(other)
             IN  /\ result.ret[1].displayName = name
                 /\ result.ret[1] = LatestLoad(first).schema

\* two stored schemas share the display name, the first one after a reload
C4_Witness ==
  /\ result.op = "getByName" /\ result.ret # <<>>
  /\ Cardinality(IdsNamed(result.arg[1])) = 2
  /\ Cardinality(LoadsOf(result.ret[1].id)) = 2
  /\ FirstLoad(result.ret[1].id) = 1
  /\ result.ret[1].structCtor = 3

(***************************************************************************)
(* Display names.                                                          *)
(***************************************************************************)
Colons(name) == {i \in 1..Len(name) : name[i] = ":"}

\* the text after the final colon; the whole name when it holds no colon
AfterFinalColon(name) ==
  IF Colons(name) = {} THEN name ELSE SubSeq(name, Max(Colons(name)) + 1, Len(name))

\* C5 as stated: the display name returned by get(id) is the text after the
\* final colon of the node's display name, also when the colon comes last.
C5_Original ==
  (result.op = "get" /\ result.ok) =>
    result.ret[1].displayName = AfterFinalColon(LatestLoad(result.arg[1]).node.displayName)

\* C5 amended: the display name returned by get(id) is the text after the
\* final colon of the node's display name when that text is not empty, and
\* the node's whole display name when it is empty (a colon as last character).
C5_DisplayName ==
  (result.op = "get" /\ result.ok) =>
    LET full == LatestLoad(result.arg[1]).node.displayName
    IN  result.ret[1].displayName =
          IF AfterFinalColon(full) # <<>> THEN AfterFinalColon(full) ELSE full

\* a name with several colons whose last character is a colon
C5_Witness ==
  /\ result.op = "get" /\ result.ok
  /\ LET full == LatestLoad(result.arg[1]).node.displayName
     IN  /\ Cardinality(Colons(full)) >= 2
         /\ Len(full) \in Colons(full)
         /\ result.ret[1].displayName = full

(***************************************************************************)
(* Object projection.                                                      *)
(***************************************************************************)
Keys(obj) == [i \in 1..Len(obj) |-> obj[i].key]

\* the names of the slot fields of a node in declaration order
SlotNameSeq(node) ==
  LET slots == SelectSeq(node.fields, LAMBDA f : f.isSlot)
  IN  [i \in 1..Len(slots) |-> slots[i].name]

\* a sequence of names without the repetitions of an earlier name
RECURSIVE Distinct(_)
Distinct(names) ==
  IF names = <<>> THEN <<>>
  ELSE LET rest == Distinct(SubSeq(names, 1, Len(names) - 1))
       IN  IF Last(names) \in Range(rest) THEN rest ELSE Append(rest, Last(names))

\* what reading struct[name] through the accessor yields
FieldRead(name) == invokeGetter(Prototype(inst)[IndexOf(Prototype(inst), name)].get, inst)

AllReadsSucceed == \A name \in AccessorNames(types[inst.ctor]) : FieldRead(name).ok

DeclaredField(name) ==
  LET fields == loadedFrom[inst.ctor].node.fields
      at == Max({i \in 1..Len(fields) : fields[i].isSlot /\ fields[i].name = name})
  IN  fields[at]

IsDeclared(name) == inst.ctor # 0 /\ name \in SlotNames(loadedFrom[inst.ctor].node)

\* bit i of a data section: bit i % 8 of byte i \div 8, least significant first
BitAt(data, i) == (data[(i \div 8) + 1] \div (2 ^ (i % 8))) % 2

C8_Write ==
  (/\ result'.op = "setField"
   /\ IsDeclared(result'.arg[1])
   /\ DeclaredField(result'.arg[1]).type = "BOOL"
   /\ DeclaredField(result'.arg[1]).offset < 8 * Len(inst.data)) =>
    LET b == DeclaredField(result'.arg[1]).offset
    IN  /\ result'.ok
        /\ BitAt(inst'.data, b) = result'.ret[1].v[1]
        /\ \A i \in 0..(8 * Len(inst.data) - 1) :
             i # b => BitAt(inst'.data, i) = BitAt(inst.data, i)
        /\ inst'.ptrs = inst.ptrs

C8_Read ==
  (/\ result.op = "getField"
   /\ IsDeclared(result.arg[1])
   /\ DeclaredField(result.arg[1]).type = "BOOL"
   /\ DeclaredField(result.arg[1]).offset < 8 * Len(inst.data)) =>
    /\ result.ok
    /\ result.ret = <<Bool(BitAt(inst.data, DeclaredField(result.arg[1]).offset) = 1)>>
    /\ (lastSet.name = result.arg[1] /\ lastSet.ok) => result.ret = <<lastSet.value>>

\* C8: for a bool field declared at bit offset b, a write through the accessor
\* sets bit b of the data section to the value written and leaves every other
\* bit as it was, and a read returns bit b: the last value written.
C8_BoolBitAccess == [][C8_Write /\ C8_Read']_vars

\* false read back after writing false into a byte whose other seven bits are set
C8_Witness ==
  /\ result.op = "getField"
  /\ IsDeclared(result.arg[1])
  /\ DeclaredField(result.arg[1]).type = "BOOL"
  /\ DeclaredField(result.arg[1]).offset = 71
  /\ lastSet = [name |-> result.arg[1], value |-> Bool(FALSE), ok |-> TRUE]
  /\ result.ret = <<Bool(FALSE)>>
  /\ inst.data[9] = 127

\* the byte width of each integer type
WidthOf(type) ==
  CASE type \in {"INT8", "UINT8"} -> 1
    [] type \in {"INT16", "UINT16"} -> 2
    [] type \in {"INT32", "UINT32"} -> 4
    [] type \in {"INT64", "UINT64"} -> 8

ZeroFrom(mag, i) == \A j \in i..Len(mag) : mag[j] = 0

\* the magnitude is below 2^(8 * width - 1), or equal to it when allowEqual
BelowHalf(mag, width, allowEqual) ==
  LET top == IF width = 1 THEN 1 ELSE width \div 2
      half == IF width = 1 THEN 128 ELSE 32768
  IN  /\ ZeroFrom(mag, top + 1)
      /\ \/ mag[top] < half
         \/ allowEqual /\ mag[top] = half /\ \A j \in 1..(top - 1) : mag[j] = 0

\* the integer value lies in the range of the type
InRange(value, type) ==
  LET mag == Tail(value.v)
      width == WidthOf(type)
  IN  IF type \in {"UINT8", "UINT16", "UINT32", "UINT64"}
      THEN /\ value.v[1] = 0
           /\ IF width = 1 THEN mag[1] <= 255 /\ ZeroFrom(mag, 2)
              ELSE ZeroFrom(mag, (width \div 2) + 1)
      ELSE IF value.v[1] = 0 THEN BelowHalf(mag, width, FALSE)
      ELSE BelowHalf(mag, width, TRUE) /\ ~ZeroFrom(mag, 1)

C9_Write ==
  (/\ result'.op = "setField"
   /\ IsDeclared(result'.arg[1])
   /\ DeclaredField(result'.arg[1]).type \in IntTypes) =>
    LET width == WidthOf(DeclaredField(result'.arg[1]).type)
        from == DeclaredField(result'.arg[1]).offset * width
    IN  /\ result'.ok <=> (from + width <= Len(inst.data))
        /\ ~result'.ok => inst' = inst
        /\ result'.ok =>
             /\ Len(inst'.data) = Len(inst.data)
             /\ \A i \in 1..Len(inst.data) :
                  (i <= from \/ i > from + width) => inst'.data[i] = inst.data[i]

C9_Read ==
  (/\ result.op = "getField"
   /\ IsDeclared(result.arg[1])
   /\ DeclaredField(result.arg[1]).type \in IntTypes
   /\ lastSet.name = result.arg[1]
   /\ lastSet.ok
   /\ InRange(lastSet.value, DeclaredField(result.arg[1]).type)) =>
    /\ result.ok
    /\ result.ret = <<lastSet.value>>

\* C9: for an integer field of type T declared at wire offset k, a write
\* through the accessor changes only the width(T) bytes from byte offset
\* k * width(T) on, and reading after writing a value in T's range returns
\* exactly that value.
C9_IntegerRoundTrip == [][C9_Write /\ C9_Read']_vars

\* 2^64 - 1 read back from a uint64 field at wire offset 1 (bytes 8 to 15)
C9_Witness ==
  /\ result.op = "getField"
  /\ IsDeclared(result.arg[1])
  /\ DeclaredField(result.arg[1]).type = "UINT64"
  /\ DeclaredField(result.arg[1]).offset = 1
  /\ lastSet.name = result.arg[1] /\ lastSet.ok
  /\ lastSet.value = BigInt(0, 65535, 65535, 65535, 65535)
  /\ result.ret = <<lastSet.value>>
  /\ \A i \in 1..8 : inst.data[i] = 0

\* the most negative int32 read back from an int32 field at wire offset 2
C9_WitnessNegative ==
  /\ result.op = "getField"
  /\ IsDeclared(result.arg[1])
  /\ DeclaredField(result.arg[1]).type = "INT32"
  /\ DeclaredField(result.arg[1]).offset = 2
  /\ result.ret = <<Number(1, 0, 32768)>>
  /\ lastSet.name = result.arg[1]

C11_EnumReadsNumber ==
  (/\ result.op = "getField"
   /\ IsDeclared(result.arg[1])
   /\ DeclaredField(result.arg[1]).type = "ENUM") =>
    /\ result.ok
    /\ result.ret[1].t = "number"

====
